---------------------------- MODULE Spec2Model ----------------------------
(***************************************************************************)
(* A model of the private-symbol polyfill (src/polyfill.js) and of the     *)
(* CommonJS exported-key helpers (src/commonjs-helpers.js).                *)
(*                                                                         *)
(* Spec        the polyfill: the private-key registry, the patched Proxy   *)
(*             constructor and the key-parameterized traps of the filtered *)
(*             handler.                                                    *)
(* SpecHandler the polyfill: proxies whose user handler gains and loses    *)
(*             traps after the proxy is made, and get and has on them.     *)
(* SpecKeys    the polyfill: the registry, proxies, properties set on the  *)
(*             raw target, and the ownKeys trap of the filtered handler.   *)
(* SpecNested  the polyfill: the registry, proxies whose target is a proxy, *)
(*             and get, set and delete on them.                            *)
(* SpecPair    the polyfill: two runs that perform the same operations     *)
(*             with public keys on the same proxies, and private-key       *)
(*             operations of their own.                                    *)
(* SpecReadWrite the polyfill: get, set and delete of a property, with two *)
(*             values, on the raw target and through proxies.              *)
(* SpecRefs    the helpers: the importer that reads exports.__exportedRefs *)
(*             (the second getExportedKeys), its init, get and set.        *)
(* SpecReflect the polyfill: the registry, properties set on the raw       *)
(*             target and the patched Reflect.ownKeys,                     *)
(*             Object.getOwnPropertySymbols and getOwnPropertyDescriptors. *)
(* SpecForward the polyfill: the registry, proxies and the traps of the    *)
(*             filtered handler that take no key (apply, construct, ...).  *)
(* SpecRevoke  the polyfill: the registry, proxies made by Proxy.revocable *)
(*             and revoked, and every operation on them.                   *)
(* SpecBroker  the helpers: makeExportedKeys and its factory, and the      *)
(*             importer returned by getExportedKeys(source, TE, RE).       *)
(* SpecSession the helpers: makeExportedKeys, direct calls of its factory  *)
(*             and the get and set of the sessions it returns.             *)
(*                                                                         *)
(* Values are modelled as strings.  A property key is either the string    *)
(* key "pub" or a symbol; symbols are named s1, s2, ... in the order the   *)
(* native Symbol function allocates them.                                  *)
(***************************************************************************)
EXTENDS Naturals, Sequences, FiniteSets

VARIABLES
    nsyms,      \* number of symbols allocated so far by the native Symbol
    data,       \* polyfill.js:24  the set of private symbols
    returned,   \* history: the symbols returned by Symbol.private
    target,     \* the raw target object: <<[key, value], ...>> in creation order
    proxies,    \* the proxies built by the patched Proxy constructor: target,
                \* the user handler's traps now (handler) and when the proxy
                \* was made (made)
    life,       \* per proxy: "plain" (new Proxy), or "live" / "revoked"
                \* (Proxy.revocable, before / after its revoke())
    ext,        \* [[Extensible]] of the raw target
    proto,      \* [[Prototype]] of the raw target
    lastOp,     \* the last polyfill operation: arguments, trap calls, outcome
    setup,      \* history: the arguments makeExportedKeys was called with
    exporter,   \* "none" | "ready" | "failed": how makeExportedKeys ended
    fallback,   \* commonjs-helpers.js:67
    resolved,   \* commonjs-helpers.js:69
    exported,   \* commonjs-helpers.js:70  (the key names it maps)
    stores,     \* the weak maps of internalRefs: key name -> object -> value
    nsessions,  \* number of sessions the factory has returned
    sessions,   \* the sessions the factory returned to its direct callers
    result,     \* commonjs-helpers.js:16  the importer's `result`
    poisoned,   \* history: an init call of the importer raised its reference error
    missingHook, \* history: an init on the Unbound binding found no broker hook
    lastCall,   \* the last helper call: arguments and outcome
    target2,    \* the raw target in a second run of the same public operations
    trace1,     \* the trap invocations the last step added to the first run
    trace2,     \* the trap invocations the last step added to the second run
    exported2,  \* commonjs-helpers.js:150  the `exported` of the importer that
                \* reads exports.__exportedRefs
    refStores,  \* the weak maps the exporting module lists in __exportedRefs
    lastRef     \* the last call of that importer: arguments and outcome

polyVars == <<nsyms, data, returned, target, proxies, life, ext, proto,
              lastOp>>
brokerVars == <<setup, exporter, fallback, resolved, exported, stores,
                nsessions, sessions, result, poisoned, missingHook,
                lastCall>>
pairVars == <<target2, trace1, trace2>>
refsVars == <<exported2, refStores, lastRef>>
vars == <<nsyms, data, returned, target, proxies, life, ext, proto, lastOp,
          setup, exporter,
          fallback, resolved, exported, stores, nsessions, sessions,
          result, poisoned, missingHook, lastCall, target2, trace1, trace2,
          exported2, refStores, lastRef>>

----------------------------------------------------------------------------
(* Bounds *)

MaxSyms == 1
MaxProxies == 1
MaxProps == 2
MaxList == 2

SymNames == <<"s1", "s2", "s3", "s4", "s5", "s6">>
StrKeys == {"pub"}
WellKnown == {"iterator"}
Vals == {"v1"}
TrapVals == {"t1"}

KeyedMethods == {"defineProperty", "deleteProperty", "get",
                 "getOwnPropertyDescriptor", "has", "set"}
ForwardMethods == {"apply", "construct", "isExtensible", "preventExtensions",
                   "getPrototypeOf", "setPrototypeOf"}
ForwardShapes == {{}, {"apply", "isExtensible", "setPrototypeOf"},
                  ForwardMethods}
Protos == {"Function.prototype", "Object.prototype", "null"}
HandlerShapes == {{}, KeyedMethods \cup {"ownKeys"}}

AllSymbols == WellKnown \cup {SymNames[i] : i \in 1..Len(SymNames)}
Symbols == WellKnown \cup {SymNames[i] : i \in 1..nsyms}
Keys == StrKeys \cup Symbols

\* The duplicate-free lists over S of length at most n.  (A proxy's
\* [[OwnPropertyKeys]] rejects a trap result that holds a key twice.)
RECURSIVE ListsUpTo(_, _)
ListsUpTo(S, n) ==
    IF n = 0 THEN {<<>>}
    ELSE LET shorter == ListsUpTo(S, n - 1)
             Fresh(s) == {y \in S : \A i \in 1..Len(s) : s[i] # y}
         IN  shorter \cup
             UNION {{Append(s, x) : x \in Fresh(s)} : s \in shorter}

----------------------------------------------------------------------------
(* The private-key registry *)

isPrivate(key) == key \in data

\* a creation that forgets to record the key
markPrivate_Forget(sym) == data

markPrivate(sym) == data \cup {sym}

OldSymbol == SymNames[nsyms + 1]

----------------------------------------------------------------------------
(* Ordinary objects: what the captured Reflect functions do on the raw     *)
(* target, a function object whose properties are all configurable,        *)
(* writable data properties.  A user handler defines either no trap or     *)
(* every keyed trap and ownKeys (HandlerShapes), so the receiver that      *)
(* Reflect.set passes on never reaches a user trap other than the one the  *)
(* operation names.                                                        *)

IndexOf(props, key) ==
    IF \E i \in 1..Len(props) : props[i].key = key
    THEN CHOOSE i \in 1..Len(props) : props[i].key = key
    ELSE 0

HasOwn(props, key) == IndexOf(props, key) # 0

ValueOf(props, key) ==
    IF HasOwn(props, key) THEN props[IndexOf(props, key)].value ELSE "undefined"

Put(props, key, val) ==
    IF HasOwn(props, key)
    THEN [props EXCEPT ![IndexOf(props, key)].value = val]
    ELSE Append(props, [key |-> key, value |-> val])

Remove(props, key) ==
    LET i == IndexOf(props, key)
    IN  IF i = 0 THEN props
        ELSE SubSeq(props, 1, i - 1) \o SubSeq(props, i + 1, Len(props))

IsStr(p) == p.key \in StrKeys
IsSym(p) == p.key \in AllSymbols

KeyList(props) == [i \in 1..Len(props) |-> props[i].key]

\* [[OwnPropertyKeys]] of an ordinary object: string keys in creation order,
\* then symbol keys in creation order.
ownKeys(props) ==
    KeyList(SelectSeq(props, IsStr)) \o KeyList(SelectSeq(props, IsSym))

getOwnPropertySymbols(props) == KeyList(SelectSeq(props, IsSym))

Ordinary(method, key, val, props) ==
    CASE method = "get" ->
           [res |-> ValueOf(props, key), tgt |-> props, calls |-> <<>>,
            status |-> "ok"]
      [] method = "getOwnPropertyDescriptor" ->
           [res |-> ValueOf(props, key), tgt |-> props, calls |-> <<>>,
            status |-> "ok"]
      [] method = "has" ->
           [res |-> IF HasOwn(props, key) THEN "true" ELSE "false",
            tgt |-> props, calls |-> <<>>,
            status |-> "ok"]
      [] method \in {"set", "defineProperty"} ->
           IF ext \/ HasOwn(props, key)
           THEN [res |-> "true", tgt |-> Put(props, key, val),
                 calls |-> <<>>, status |-> "ok"]
           ELSE [res |-> "false", tgt |-> props, calls |-> <<>>,
                 status |-> "ok"]
      [] method = "deleteProperty" ->
           [res |-> "true", tgt |-> Remove(props, key), calls |-> <<>>,
            status |-> "ok"]

----------------------------------------------------------------------------
(* Revocation: the engine's proxy made by OldProxy.revocable *)

\* a revocation nobody notices
IsRevoked_Never(o) == FALSE

IsRevoked(o) == o # 0 /\ life[o] = "revoked"

\* every internal method of a revoked proxy throws a TypeError before the
\* handler is looked at
Revoked(props) ==
    [res |-> "none", tgt |-> props, calls |-> <<>>, status |-> "TypeError"]

----------------------------------------------------------------------------
(* The filtered handler *)

\* call(body, handler, ...arguments): the user's trap runs.  It is recorded
\* with the arguments it received and returns a value of its own choosing.
TrapCall(o, method, key, val, ret, props) ==
    [res |-> ret, tgt |-> props,
     calls |-> <<[proxy |-> o, method |-> method,
                  target |-> proxies[o].target, key |-> key, val |-> val]>>,
     status |-> "ok"]

RECURSIVE filter(_, _, _, _, _, _)
\* hooks[method](...arguments) is Reflect[method] applied to the proxy's
\* target: an ordinary operation on the raw target (object 0), or the
\* filtered handler of the proxy that the target is.
hooks(o, method, key, val, ret, props) ==
    IF o = 0 THEN Ordinary(method, key, val, props)
    ELSE IF IsRevoked(o) THEN Revoked(props)
    ELSE filter(o, method, key, val, ret, props)

\* a filter that copies the traps when the proxy is made
filter_TrapsAtConstruction(o, method, key, val, ret, props) ==
    IF ~isPrivate(key) /\ method \in proxies[o].made
    THEN TrapCall(o, method, key, val, ret, props)
    ELSE hooks(proxies[o].target, method, key, val, ret, props)

\* a filter that hides private keys: an operation with one reports success
\* and does nothing
filter_PrivateIgnored(o, method, key, val, ret, props) ==
    IF isPrivate(key)
    THEN [res |-> IF method \in {"get", "getOwnPropertyDescriptor"}
                  THEN "undefined" ELSE "true",
          tgt |-> props, calls |-> <<>>, status |-> "ok"]
    ELSE IF method \in proxies[o].handler
    THEN TrapCall(o, method, key, val, ret, props)
    ELSE hooks(proxies[o].target, method, key, val, ret, props)

\* a filter that bypasses its own handler only: the handler of a proxy that
\* is the target still sees the private key
filter_InnerUnfiltered(o, method, key, val, ret, props) ==
    IF ~isPrivate(key) /\ method \in proxies[o].handler
    THEN TrapCall(o, method, key, val, ret, props)
    ELSE LET t == proxies[o].target
         IN  IF t # 0 /\ method \in proxies[t].handler
             THEN TrapCall(t, method, key, val, ret, props)
             ELSE hooks(t, method, key, val, ret, props)

\* a filter that hides a private key only while the target holds it
filter_AbsentKeyTrapped(o, method, key, val, ret, props) ==
    IF (~isPrivate(key) \/ ~HasOwn(props, key)) /\ method \in proxies[o].handler
    THEN TrapCall(o, method, key, val, ret, props)
    ELSE hooks(proxies[o].target, method, key, val, ret, props)

\* a filter that consults the handler for every key
filter_NoRegistryCheck(o, method, key, val, ret, props) ==
    IF method \in proxies[o].handler
    THEN TrapCall(o, method, key, val, ret, props)
    ELSE hooks(proxies[o].target, method, key, val, ret, props)

\* a filter that never consults the handler
filter_NoForward(o, method, key, val, ret, props) ==
    hooks(proxies[o].target, method, key, val, ret, props)

filter(o, method, key, val, ret, props) ==
    IF ~isPrivate(key) /\ method \in proxies[o].handler
    THEN TrapCall(o, method, key, val, ret, props)
    ELSE hooks(proxies[o].target, method, key, val, ret, props)

\* Reflect[method] of a non-key-parameterized method on the raw target:
\* the target function returns "returned" when called and "instance" when
\* constructed
OrdinaryForward(method, val) ==
    LET done(res, e, p) == [res |-> res, ext |-> e, proto |-> p,
                            calls |-> <<>>, status |-> "ok"]
    IN  CASE method = "apply" -> done("returned", ext, proto)
          [] method = "construct" -> done("instance", ext, proto)
          [] method = "isExtensible" ->
               done(IF ext THEN "true" ELSE "false", ext, proto)
          [] method = "preventExtensions" -> done("true", FALSE, proto)
          [] method = "getPrototypeOf" -> done(proto, ext, proto)
          [] method = "setPrototypeOf" ->
               IF ext \/ val = proto THEN done("true", ext, val)
               ELSE done("false", ext, proto)

ForwardTrapCall(o, method, val, ret) ==
    [res |-> ret, ext |-> ext, proto |-> proto,
     calls |-> <<[proxy |-> o, method |-> method,
                  target |-> proxies[o].target, key |-> "none", val |-> val]>>,
     status |-> "ok"]

RECURSIVE forward(_, _, _, _)
\* hooks[method](...arguments) for a method built by forward(method)
hooksForward(o, method, val, ret) ==
    IF o = 0 THEN OrdinaryForward(method, val)
    ELSE IF IsRevoked(o)
    THEN [res |-> "none", ext |-> ext, proto |-> proto, calls |-> <<>>,
          status |-> "TypeError"]
    ELSE forward(o, method, val, ret)

\* a forward that consults the handler only while no private key exists
forward_RegistryGated(o, method, val, ret) ==
    IF data = {} /\ method \in proxies[o].handler
    THEN ForwardTrapCall(o, method, val, ret)
    ELSE hooksForward(proxies[o].target, method, val, ret)

forward(o, method, val, ret) ==
    IF method \in proxies[o].handler
    THEN ForwardTrapCall(o, method, val, ret)
    ELSE hooksForward(proxies[o].target, method, val, ret)

\* a check that reads this[0] at every index
HasPrivate_FirstOnly(keys) == keys # <<>> /\ isPrivate(keys[1])

\* filterKey over Array.from(lengthRef, filterKey, keys)
HasPrivate(keys) == \E i \in 1..Len(keys) : isPrivate(keys[i])

NotPrivate(key) == ~isPrivate(key)

\* a filterKey that drops the private keys instead of throwing
filterKey_Strip(keys) == [status |-> "ok", keys |-> SelectSeq(keys, NotPrivate)]

filterKey(keys) ==
    IF HasPrivate(keys)
    THEN [status |-> "TypeError", keys |-> <<>>]
    ELSE [status |-> "ok", keys |-> keys]

RECURSIVE filteredOwnKeys(_, _, _)
\* the captured native Reflect.ownKeys (polyfill.js:21) on object o
nativeOwnKeys(o, L, props) ==
    IF o = 0 THEN [status |-> "ok", keys |-> ownKeys(props), calls |-> <<>>]
    ELSE IF IsRevoked(o)
    THEN [status |-> "TypeError", keys |-> <<>>, calls |-> <<>>]
    ELSE filteredOwnKeys(o, L, props)

filteredOwnKeys(o, L, props) ==
    IF "ownKeys" \notin proxies[o].handler
    THEN nativeOwnKeys(proxies[o].target, L, props)
    ELSE LET r == filterKey(L)
         IN  [status |-> r.status, keys |-> r.keys,
              calls |-> <<[proxy |-> o, method |-> "ownKeys",
                           target |-> proxies[o].target,
                           key |-> "none", val |-> "none"]>>]

----------------------------------------------------------------------------
(* Operations of the polyfill *)

NoOp == [op |-> "none", obj |-> 0, key |-> "none", val |-> "none",
         status |-> "ok", res |-> "none", keys |-> <<>>, calls |-> <<>>,
         list |-> <<>>]

\* Symbol.private(name)
SymbolPrivate ==
    /\ nsyms < MaxSyms
    /\ LET sym == OldSymbol
       IN  /\ nsyms' = nsyms + 1
           /\ data' = markPrivate(sym)
           /\ returned' = returned \cup {sym}
           /\ lastOp' = [NoOp EXCEPT !.op = "private", !.res = sym]
    /\ UNCHANGED <<target, proxies, life, ext, proto>>
    /\ UNCHANGED brokerVars
    /\ UNCHANGED pairVars
    /\ UNCHANGED refsVars

\* Symbol.isPrivate(sym).  For a symbol the body evaluates
\* isPrivate(symbol); no binding named `symbol` exists in the file, so the
\* strict-mode reference raises a ReferenceError before isPrivate is called.
isPrivateOutcome(sym) ==
    IF sym \in AllSymbols
    THEN [status |-> "ReferenceError", res |-> "none"]
    ELSE [status |-> "TypeError", res |-> "none"]

SymbolIsPrivate ==
    \E sym \in Keys \cup {"undefined"} :
        /\ lastOp' = [NoOp EXCEPT !.op = "isPrivate", !.key = sym,
                                  !.status = isPrivateOutcome(sym).status,
                                  !.res = isPrivateOutcome(sym).res]
        /\ UNCHANGED <<nsyms, data, returned, target, proxies, life, ext,
                       proto>>
        /\ UNCHANGED brokerVars
        /\ UNCHANGED pairVars
        /\ UNCHANGED refsVars

\* OldProxy / OldProxy.revocable applied to (target, filterProxy(handler)).
\* (A revoked proxy is not taken as the target: engines differ on it.)
ProxyOf(shapes, kind) ==
    /\ Len(proxies) < MaxProxies
    /\ \E t \in 0..Len(proxies), h \in shapes :
           /\ ~IsRevoked(t)
           /\ proxies' = Append(proxies, [target |-> t, handler |-> h,
                                        made |-> h])
    /\ life' = Append(life, kind)
    /\ lastOp' = [NoOp EXCEPT !.op = IF kind = "plain" THEN "Proxy"
                                     ELSE "Proxy.revocable",
                              !.obj = Len(proxies) + 1]
    /\ UNCHANGED <<nsyms, data, returned, target, ext, proto>>
    /\ UNCHANGED brokerVars
    /\ UNCHANGED pairVars
    /\ UNCHANGED refsVars

\* new Proxy(target, handler)
NewProxy == ProxyOf(HandlerShapes, "plain")

\* Proxy.revocable(target, handler)
ProxyRevocable == ProxyOf(HandlerShapes, "live")

\* the revoke function of a proxy made by Proxy.revocable
Revoke ==
    /\ \E o \in 1..Len(proxies) :
           /\ life[o] \in {"live", "revoked"}
           /\ life' = [life EXCEPT ![o] = "revoked"]
           /\ lastOp' = [NoOp EXCEPT !.op = "revoke", !.obj = o]
    /\ UNCHANGED <<nsyms, data, returned, target, proxies, ext, proto>>
    /\ UNCHANGED brokerVars
    /\ UNCHANGED pairVars
    /\ UNCHANGED refsVars

UsesValue(method) == method \in {"set", "defineProperty"}

\* A key-parameterized operation on object o (the raw target or a proxy):
\* the engine calls the filtered handler's trap of a proxy, and performs the
\* ordinary operation on the raw target.
KeyedWith(objs, methods, keys, vals) ==
    \E o \in objs, method \in methods, key \in keys, ret \in TrapVals :
      \E val \in (IF UsesValue(method) THEN vals ELSE {"none"}) :
        LET r == hooks(o, method, key, val, ret, target)
        IN  /\ Len(r.tgt) <= MaxProps
            /\ target' = r.tgt
            /\ lastOp' = [NoOp EXCEPT !.op = method, !.obj = o, !.key = key,
                                      !.val = val, !.res = r.res,
                                      !.status = r.status,
                                      !.calls = r.calls]
            /\ UNCHANGED <<nsyms, data, returned, proxies, life, ext, proto>>
            /\ UNCHANGED brokerVars
            /\ UNCHANGED pairVars
            /\ UNCHANGED refsVars

KeyedOn(objs, methods) == KeyedWith(objs, methods, Keys, Vals)

Keyed == KeyedOn(0..Len(proxies), KeyedMethods)

\* target[key] = val, performed directly on the raw target
TargetSet == KeyedOn({0}, {"set"})

\* the key-parameterized operations performed directly on the raw target
TargetKeyed == KeyedOn({0}, KeyedMethods)

\* [[OwnPropertyKeys]] of proxy o: the filtered handler's ownKeys trap.  L is
\* the list the user's ownKeys trap returns, if it is called.
OwnKeysWith(lists) ==
    \E o \in 1..Len(proxies), L \in lists :
        LET r == nativeOwnKeys(o, L, target)
        IN  /\ lastOp' = [NoOp EXCEPT !.op = "ownKeys", !.obj = o,
                                      !.status = r.status, !.keys = r.keys,
                                      !.calls = r.calls,
                                      !.list = IF r.calls = <<>> THEN <<>> ELSE L]
            /\ UNCHANGED <<nsyms, data, returned, target, proxies, life, ext,
                           proto>>
            /\ UNCHANGED brokerVars
            /\ UNCHANGED pairVars
            /\ UNCHANGED refsVars

OwnKeys == OwnKeysWith(ListsUpTo(Keys, MaxList))

\* new Proxy(target, handler) with a handler of non-keyed traps
ForwardProxy == ProxyOf(ForwardShapes, "plain")

ForwardArgs(method) ==
    IF method = "setPrototypeOf" THEN Protos
    ELSE IF method \in {"apply", "construct"} THEN {"args"}
    ELSE {"none"}

\* A non-key-parameterized operation on proxy o: the engine calls the
\* trap of the filtered handler that forward(method) built.
ForwardedOn(methods) ==
    \E o \in 1..Len(proxies), method \in methods, ret \in TrapVals :
      \E val \in ForwardArgs(method) :
        LET r == hooksForward(o, method, val, ret)
        IN  /\ ext' = r.ext
            /\ proto' = r.proto
            /\ lastOp' = [NoOp EXCEPT !.op = method, !.obj = o, !.val = val,
                                      !.res = r.res, !.status = r.status,
                                      !.calls = r.calls]
            /\ UNCHANGED <<nsyms, data, returned, target, proxies, life>>
            /\ UNCHANGED brokerVars
            /\ UNCHANGED pairVars
            /\ UNCHANGED refsVars

Forwarded == ForwardedOn(ForwardMethods)

\* the operations applied to revocable proxies: reads and writes of a
\* property, queries of the target's state, and an enumeration whose trap
\* returns the string key
RevocableKeyed == KeyedOn(1..Len(proxies), {"get", "set"})
RevocableForwarded == ForwardedOn({"isExtensible", "getPrototypeOf"})
RevocableOwnKeys == OwnKeysWith({<<"pub">>})

----------------------------------------------------------------------------
(* The patched Object and Reflect methods, applied to the raw target *)

\* a removePrivateKeys that returns the array as it is
removePrivateKeys_Keep(array) == array

\* the loop of removePrivateKeys: i is the index read, count the number of
\* elements kept so far
RECURSIVE removeLoop(_, _, _)
removeLoop(array, i, count) ==
    IF i > Len(array) THEN SubSeq(array, 1, count)
    ELSE IF ~isPrivate(array[i])
    THEN removeLoop([array EXCEPT ![count + 1] = array[i]], i + 1, count + 1)
    ELSE removeLoop(array, i + 1, count)

removePrivateKeys(array) == removeLoop(array, 1, 0)

\* the native Object.getOwnPropertyDescriptors: an object with one entry
\* per own key, in [[OwnPropertyKeys]] order
getOwnPropertyDescriptors(props) ==
    SelectSeq(props, IsStr) \o SelectSeq(props, IsSym)

\* the loop of the patched getOwnPropertyDescriptors over keys[i..]
RECURSIVE deletePrivate(_, _, _)
deletePrivate(descs, keys, i) ==
    IF i > Len(keys) THEN descs
    ELSE IF isPrivate(keys[i])
    THEN deletePrivate(Remove(descs, keys[i]), keys, i + 1)
    ELSE deletePrivate(descs, keys, i + 1)

ValueList(props) == [i \in 1..Len(props) |-> props[i].value]

\* Reflect.ownKeys(target), patched
ReflectOwnKeys ==
    /\ lastOp' = [NoOp EXCEPT !.op = "Reflect.ownKeys",
                              !.keys = removePrivateKeys(ownKeys(target))]
    /\ UNCHANGED <<nsyms, data, returned, target, proxies, life, ext, proto>>
    /\ UNCHANGED brokerVars
    /\ UNCHANGED pairVars
    /\ UNCHANGED refsVars

\* Object.getOwnPropertySymbols(object), patched
ObjectGetOwnPropertySymbols ==
    /\ lastOp' = [NoOp EXCEPT
                    !.op = "Object.getOwnPropertySymbols",
                    !.keys = removePrivateKeys(getOwnPropertySymbols(target))]
    /\ UNCHANGED <<nsyms, data, returned, target, proxies, life, ext, proto>>
    /\ UNCHANGED brokerVars
    /\ UNCHANGED pairVars
    /\ UNCHANGED refsVars

\* Object.getOwnPropertyDescriptors(object), patched
ObjectGetOwnPropertyDescriptors ==
    /\ LET descs == deletePrivate(getOwnPropertyDescriptors(target),
                                  getOwnPropertySymbols(target), 1)
       IN  lastOp' = [NoOp EXCEPT !.op = "Object.getOwnPropertyDescriptors",
                                  !.keys = KeyList(descs),
                                  !.list = ValueList(descs)]
    /\ UNCHANGED <<nsyms, data, returned, target, proxies, life, ext, proto>>
    /\ UNCHANGED brokerVars
    /\ UNCHANGED pairVars
    /\ UNCHANGED refsVars

----------------------------------------------------------------------------
(* The exported-key helpers: the exporter *)

MaxSessions == 2
MaxKeys == 2

Source == "./create.js"
StoreNames == {"elem", "x"}
RequestNames == {"elem", "x"}
KeyNames == {"elem", "x", "y"}
StoreVals == {"v1", "v2"}
Files == {"/a.js", "/b.js"}
Objects == {"o1"}
NonObjects == {"null", "prim"}
\* the shapes of the `mod` argument of init: null, a primitive, an object whose
\* exports is null, a primitive or a function carrying the hook, a module
\* without the hook, a module with it
ModKinds == {"null", "prim", "exportsNull", "exportsPrim", "exportsFunction",
             "noHook", "hooked"}

NoScoped == [spec \in {} |-> <<>>]
ExporterSetups ==
    {[all |-> <<"elem">>, scoped |-> NoScoped],
     [all |-> <<"elem">>, scoped |-> [spec \in {"./a"} |-> <<"x">>]],
     [all |-> <<"elem", "y">>, scoped |-> NoScoped],
     [all |-> <<"elem">>, scoped |-> [spec \in {"./a"} |-> <<"y">>]],
     [all |-> <<"elem">>,
      scoped |-> [spec \in {"./a", "./a.js"} |->
                    IF spec = "./a" THEN <<"x">> ELSE <<"elem">>]]}
NoSetup == [all |-> <<>>, scoped |-> NoScoped]

Range(seq) == {seq[i] : i \in 1..Len(seq)}

\* req.resolve(key): "./a" and "./a.js" name the same file
Resolve(spec) == IF spec \in {"./a", "./a.js"} THEN "/a.js" ELSE "/b.js"

\* Object.keys(scoped): the specifiers in the order the object lists them
SpecOrder == <<"./a", "./a.js">>
ObjectKeys(scoped) ==
    LET Listed(spec) == spec \in DOMAIN scoped
    IN  SelectSeq(SpecOrder, Listed)

\* the specifier whose resolved.set(req.resolve(key), value) is the last one
\* for file f: a later set replaces the value of an earlier one
LastSpecFor(scoped, f) ==
    LET specs == ObjectKeys(scoped)
        last == CHOOSE i \in 1..Len(specs) :
                   /\ Resolve(specs[i]) = f
                   /\ \A j \in (i + 1)..Len(specs) : Resolve(specs[j]) # f
    IN  specs[last]

\* a scan that reports the last element of seq that is not in S
FirstNotIn_Last(seq, S) ==
    IF \E i \in 1..Len(seq) : seq[i] \notin S
    THEN seq[CHOOSE i \in 1..Len(seq) :
                 seq[i] \notin S /\ \A j \in (i + 1)..Len(seq) : seq[j] \in S]
    ELSE "none"

\* the first element of seq that is not in S, or "none"
FirstNotIn(seq, S) ==
    IF \E i \in 1..Len(seq) : seq[i] \notin S
    THEN seq[CHOOSE i \in 1..Len(seq) :
                 seq[i] \notin S /\ \A j \in 1..(i - 1) : seq[j] \in S]
    ELSE "none"

Referenced(all, scoped) ==
    Range(all) \cup UNION {Range(scoped[spec]) : spec \in DOMAIN scoped}

\* a setup that validates the names of `all` only
addExportedThrows_GlobalOnly(all, scoped) == Range(all) \ StoreNames # {}

\* addExported(key) throws for a key whose internalRefs entry is no WeakMap
addExportedThrows(all, scoped) == Referenced(all, scoped) \ StoreNames # {}

\* makeExportedKeys(internalRefs, req, all, scoped)
makeExportedKeys ==
    /\ exporter = "none"
    /\ \E cfg \in ExporterSetups :
         /\ setup' = cfg
         /\ IF addExportedThrows(cfg.all, cfg.scoped)
            THEN /\ exporter' = "failed"
                 /\ UNCHANGED <<fallback, resolved, exported>>
                 /\ lastCall' = [op |-> "makeExportedKeys", mod |-> "none",
                                 file |-> "none", keys |-> <<>>, obj |-> "none",
                                 key |-> "none", val |-> "none",
                                 err |-> "Error", kind |-> "MissingStore",
                                 msgKey |-> "none", msgFrom |-> "none",
                                 ret |-> "none",
                                 session |-> 0, was |-> "none"]
            ELSE /\ exporter' = "ready"
                 /\ fallback' = Range(cfg.all)
                 /\ resolved' =
                      [f \in {Resolve(spec) : spec \in DOMAIN cfg.scoped} |->
                         Range(cfg.all) \cup
                         Range(cfg.scoped[LastSpecFor(cfg.scoped, f)])]
                 /\ exported' = Referenced(cfg.all, cfg.scoped)
                 /\ lastCall' = [op |-> "makeExportedKeys", mod |-> "none",
                                 file |-> "none", keys |-> <<>>, obj |-> "none",
                                 key |-> "none", val |-> "none",
                                 err |-> "none", kind |-> "none",
                                 msgKey |-> "none", msgFrom |-> "none",
                                 ret |-> "factory",
                                 session |-> 0, was |-> "none"]
    /\ UNCHANGED <<stores, nsessions, sessions, result, poisoned, missingHook>>
    /\ UNCHANGED polyVars
    /\ UNCHANGED pairVars
    /\ UNCHANGED refsVars

\* a weakSet that keeps the value of an entry that exists
weakSet_KeepOld(name, O, V) ==
    IF stores[name][O] = "absent" THEN [stores EXCEPT ![name][O] = V]
    ELSE stores

\* weakSet(store, O, V) on the store of key `name`
weakSet(name, O, V) == [stores EXCEPT ![name][O] = V]

\* the exporting module gives object o its private field: store.set(o, val)
StoreInit ==
    /\ \E name \in StoreNames, o \in Objects, val \in StoreVals :
         /\ stores' = weakSet(name, o, val)
         /\ lastCall' = [op |-> "storeInit", mod |-> "none", file |-> "none",
                         keys |-> <<>>, obj |-> o, key |-> name, val |-> val,
                         err |-> "none", kind |-> "none", msgKey |-> "none",
                         msgFrom |-> "none", ret |-> "none",
                         session |-> 0, was |-> "none"]
    /\ UNCHANGED <<setup, exporter, fallback, resolved, exported, nsessions,
                   sessions, result, poisoned, missingHook>>
    /\ UNCHANGED polyVars
    /\ UNCHANGED pairVars
    /\ UNCHANGED refsVars

StringResult(str) == [type |-> "string", str |-> str, refs |-> {}, id |-> 0]
SessionResult(refs, id) == [type |-> "session", str |-> "", refs |-> refs, id |-> id]

\* mapGet(resolved, filename) || fallback
allowedFor(filename) ==
    IF filename \in DOMAIN resolved THEN resolved[filename] ELSE fallback

\* a factory that authorizes every exported key for every consumer
factory_AllExported(filename, keys) ==
    LET key == FirstNotIn(keys, exported)
    IN  IF key # "none" THEN StringResult(key)
        ELSE SessionResult(Range(keys), nsessions + 1)

\* a factory that authorizes whatever is requested
factory_NoCheck(filename, keys) == SessionResult(Range(keys), nsessions + 1)

\* the function makeExportedKeys returns, called as (filename, TE, keys)
factory(filename, keys) ==
    LET key == FirstNotIn(keys, allowedFor(filename))
    IN  IF key # "none" THEN StringResult(key)
        ELSE SessionResult(Range(keys), nsessions + 1)

\* a transact that tests the target before the key
transact_TypeFirst(refs, O, key) ==
    IF O \in NonObjects
    THEN [err |-> "TypeError", kind |-> "TypeMismatch"]
    ELSE IF key \notin refs
    THEN [err |-> "Error", kind |-> "InvalidKey"]
    ELSE IF stores[key][O] = "absent"
    THEN [err |-> "TypeError", kind |-> "MissingField"]
    ELSE [err |-> "none", kind |-> "none"]

\* a transact without the membership test of line 104; a name with no
\* store makes weakHas throw a TypeError
transact_NoRefsCheck(refs, O, key) ==
    IF O \in NonObjects
    THEN [err |-> "TypeError", kind |-> "TypeMismatch"]
    ELSE IF key \notin StoreNames \/ stores[key][O] = "absent"
    THEN [err |-> "TypeError", kind |-> "MissingField"]
    ELSE [err |-> "none", kind |-> "none"]

\* a transact without the weakHas test of line 112
transact_NoHasCheck(refs, O, key) ==
    IF key \notin refs
    THEN [err |-> "Error", kind |-> "InvalidKey"]
    ELSE IF O \in NonObjects
    THEN [err |-> "TypeError", kind |-> "TypeMismatch"]
    ELSE [err |-> "none", kind |-> "none"]

\* transact(O, key) of a session with the authorized names refs
transact(refs, O, key) ==
    IF key \notin refs
    THEN [err |-> "Error", kind |-> "InvalidKey"]
    ELSE IF O \in NonObjects
    THEN [err |-> "TypeError", kind |-> "TypeMismatch"]
    ELSE IF stores[key][O] = "absent"
    THEN [err |-> "TypeError", kind |-> "MissingField"]
    ELSE [err |-> "none", kind |-> "none"]

\* a set that writes the store before transact has validated the call
setStores_WriteFirst(t, K, O, V) ==
    IF O \in Objects /\ K \in StoreNames THEN weakSet(K, O, V) ELSE stores

\* weakSet(transact(O, K), O, V): transact, the first argument, is evaluated
\* first, and a throw of it (outcome t) leaves weakSet uncalled
setStores(t, K, O, V) ==
    IF t.err = "none" THEN weakSet(K, O, V) ELSE stores

NoCall == [op |-> "none", mod |-> "none", file |-> "none", keys |-> <<>>,
           obj |-> "none", key |-> "none", val |-> "none", err |-> "none",
           kind |-> "none", msgKey |-> "none", msgFrom |-> "none",
           ret |-> "none", session |-> 0, was |-> "none"]

\* the objects and the non-objects handed to a session's get and set
SessionObjects == Objects \cup NonObjects

\* a direct call factory(filename, TE, keys); the caller keeps the session
FactoryCall ==
    /\ exporter = "ready"
    /\ \E filename \in Files, keys \in ListsUpTo(KeyNames, MaxKeys) :
         LET r == factory(filename, keys)
             made == r.type = "session"
         IN  /\ made => nsessions < MaxSessions
             /\ sessions' = IF made THEN Append(sessions, r) ELSE sessions
             /\ nsessions' = IF made THEN nsessions + 1 ELSE nsessions
             /\ lastCall' = [NoCall EXCEPT
                               !.op = "factory", !.file = filename,
                               !.keys = keys,
                               !.ret = IF made THEN "session" ELSE r.str,
                               !.session = IF made THEN Len(sessions) + 1
                                           ELSE 0]
    /\ UNCHANGED <<setup, exporter, fallback, resolved, exported, stores,
                   result, poisoned, missingHook>>
    /\ UNCHANGED polyVars
    /\ UNCHANGED pairVars
    /\ UNCHANGED refsVars

\* session.get(O, K): weakGet(transact(O, K), O)
SessionGet ==
    /\ \E i \in 1..Len(sessions), O \in SessionObjects, K \in RequestNames :
         LET t == transact(sessions[i].refs, O, K)
         IN  lastCall' = [NoCall EXCEPT
                            !.op = "session.get", !.session = i, !.obj = O,
                            !.key = K, !.err = t.err, !.kind = t.kind,
                            !.msgKey = IF t.err = "none" THEN "none" ELSE K,
                            !.ret = IF t.err = "none" THEN stores[K][O]
                                    ELSE "none"]
    /\ UNCHANGED <<setup, exporter, fallback, resolved, exported, stores,
                   nsessions, sessions, result, poisoned, missingHook>>
    /\ UNCHANGED polyVars
    /\ UNCHANGED pairVars
    /\ UNCHANGED refsVars

\* session.set(O, K, V): weakSet(transact(O, K), O, V); return V
SessionSet ==
    /\ \E i \in 1..Len(sessions), O \in SessionObjects, K \in RequestNames,
          V \in StoreVals :
         LET t == transact(sessions[i].refs, O, K)
         IN  /\ stores' = setStores(t, K, O, V)
             /\ lastCall' = [NoCall EXCEPT
                               !.op = "session.set", !.session = i,
                               !.obj = O, !.key = K, !.val = V,
                               !.err = t.err, !.kind = t.kind,
                               !.msgKey = IF t.err = "none" THEN "none"
                                          ELSE K,
                               !.ret = IF t.err = "none" THEN V ELSE "none"]
    /\ UNCHANGED <<setup, exporter, fallback, resolved, exported, nsessions,
                   sessions, result, poisoned, missingHook>>
    /\ UNCHANGED polyVars
    /\ UNCHANGED pairVars
    /\ UNCHANGED refsVars

----------------------------------------------------------------------------
(* The exported-key helpers: the importer getExportedKeys(source, TE, RE) *)

typeofString(r) == r.type = "string"

\* The state of the binding: Bound once `result` is a session, Poisoned while
\* it is a string after an init call raised the reference error, else Unbound.
Binding ==
    IF ~typeofString(result) THEN "Bound"
    ELSE IF poisoned THEN "Poisoned"
    ELSE "Unbound"

\* an init that forgets the session when the module has no hook
initResult_Reset(mod, filename, keys) ==
    IF mod = "hooked" THEN factory(filename, keys) ELSE StringResult(Source)

\* the value of `result` after lines 23-27 of init
initResult(mod, filename, keys) ==
    IF mod = "hooked" THEN factory(filename, keys) ELSE result

\* a module test that does not look at mod.exports
isModule_ExportsUnchecked(mod) == mod \notin {"null", "prim"}

\* the two tests that open init (lines 20 and 22): mod, then mod.exports, is
\* neither null nor of a typeof other than "object"
isModule(mod) ==
    /\ mod \notin {"null", "prim"}
    /\ mod \notin {"exportsNull", "exportsPrim", "exportsFunction"}

\* an init that raises its reference error only inside the hook branch
initRaises_InHookBranch(mod, r) == mod = "hooked" /\ typeofString(r)

\* the test of line 29, made whether or not the module has the hook
initRaises(mod, r) == typeofString(r)

\* init(mod, filename, keys)
ImporterInit ==
    /\ \E mod \in ModKinds, filename \in Files,
          keys \in ListsUpTo(RequestNames, Cardinality(RequestNames)) :
         /\ mod = "hooked" => exporter = "ready"
         /\ IF ~isModule(mod)
            THEN /\ lastCall' = [op |-> "init", mod |-> mod, file |-> filename,
                                 keys |-> keys, obj |-> "none", key |-> "none",
                                 val |-> "none", err |-> "TypeError",
                                 kind |-> "NotModule", msgKey |-> "none",
                                 msgFrom |-> "none", ret |-> "none",
                                 session |-> 0, was |-> Binding]
                 /\ UNCHANGED <<result, nsessions, poisoned, missingHook>>
            ELSE LET r == initResult(mod, filename, keys)
                     made == mod = "hooked" /\ r.type = "session"
                 IN  /\ made => nsessions < MaxSessions
                     /\ result' = r
                     /\ nsessions' = IF made THEN nsessions + 1 ELSE nsessions
                     /\ poisoned' = initRaises(mod, r)
                     /\ missingHook' = (\/ missingHook
                                         \/ /\ mod = "noHook"
                                            /\ Binding = "Unbound")
                     /\ lastCall' =
                          [op |-> "init", mod |-> mod, file |-> filename,
                           keys |-> keys, obj |-> "none", key |-> "none",
                           val |-> "none",
                           err |-> IF initRaises(mod, r) THEN "ReferenceError"
                                   ELSE "none",
                           kind |-> IF initRaises(mod, r) THEN "NotReferenced"
                                    ELSE "none",
                           msgKey |-> IF ~initRaises(mod, r) THEN "none"
                                      ELSE IF keys = <<>> THEN "undefined"
                                      ELSE keys[1],
                           msgFrom |-> IF initRaises(mod, r) THEN r.str
                                       ELSE "none",
                           ret |-> IF mod # "hooked" THEN "none"
                                   ELSE IF typeofString(r) THEN r.str
                                   ELSE "session",
                           session |-> 0, was |-> Binding]
    /\ UNCHANGED <<setup, exporter, fallback, resolved, exported, stores,
                   sessions>>
    /\ UNCHANGED polyVars
    /\ UNCHANGED pairVars
    /\ UNCHANGED refsVars

\* a get and set without the typeof test: calling a method of a string fails
\* with the engine's TypeError
guarded_NoGuard(O, key) ==
    IF typeofString(result)
    THEN [err |-> "TypeError", kind |-> "NotAFunction"]
    ELSE transact(result.refs, O, key)

\* a delegation to a session that authorizes every exported name
guarded_AnyKey(O, key) ==
    IF typeofString(result)
    THEN [err |-> "ReferenceError", kind |-> "NotReferenced"]
    ELSE transact(exported, O, key)

\* the guard of get and set (lines 33 and 38), then the transact of the
\* session held in `result`
guarded(O, key) ==
    IF typeofString(result)
    THEN [err |-> "ReferenceError", kind |-> "NotReferenced"]
    ELSE transact(result.refs, O, key)

\* get(O, key)
ImporterGet ==
    /\ \E O \in Objects \cup NonObjects, key \in RequestNames :
         LET t == guarded(O, key)
         IN  lastCall' =
               [op |-> "get", mod |-> "none", file |-> "none", keys |-> <<>>,
                obj |-> O, key |-> key, val |-> "none",
                err |-> t.err, kind |-> t.kind,
                msgKey |-> IF t.err = "none" THEN "none" ELSE key,
                msgFrom |-> IF typeofString(result) THEN result.str ELSE "none",
                ret |-> IF t.err = "none" THEN stores[key][O] ELSE "none",
                session |-> 0, was |-> "none"]
    /\ UNCHANGED <<setup, exporter, fallback, resolved, exported, stores,
                   nsessions, sessions, result, poisoned, missingHook>>
    /\ UNCHANGED polyVars
    /\ UNCHANGED pairVars
    /\ UNCHANGED refsVars

\* set(O, key, value)
ImporterSet ==
    /\ \E O \in Objects \cup NonObjects, key \in RequestNames,
          val \in StoreVals :
         LET t == guarded(O, key)
         IN  /\ stores' = setStores(t, key, O, val)
             /\ lastCall' =
                  [op |-> "set", mod |-> "none", file |-> "none",
                   keys |-> <<>>, obj |-> O, key |-> key, val |-> val,
                   err |-> t.err, kind |-> t.kind,
                   msgKey |-> IF t.err = "none" THEN "none" ELSE key,
                   msgFrom |-> IF typeofString(result) THEN result.str
                               ELSE "none",
                   ret |-> IF t.err = "none" THEN val ELSE "none",
                   session |-> 0, was |-> "none"]
    /\ UNCHANGED <<setup, exporter, fallback, resolved, exported, nsessions,
                   sessions, result, poisoned, missingHook>>
    /\ UNCHANGED polyVars
    /\ UNCHANGED pairVars
    /\ UNCHANGED refsVars

----------------------------------------------------------------------------

----------------------------------------------------------------------------
(* Two runs of the same public operations.  Both runs create the same      *)
(* private keys and proxies and perform the same operations with keys that *)
(* are not private; each run performs private-key operations of its own.   *)
(* The first run acts on `target`, the second on `target2`; trace1 and     *)
(* trace2 hold the user trap invocations, with their arguments, that the   *)
(* latest step added to the trace of each run.                             *)

PairMethods == {"get", "set", "deleteProperty"}

\* one operation with a key that is not private, performed in both runs on
\* the same proxy with the same arguments; the user's trap, if it runs,
\* returns the same value in both
PublicInBoth ==
    /\ \E o \in 1..Len(proxies), method \in PairMethods, ret \in TrapVals,
          key \in {k \in Keys : ~isPrivate(k)} :
         \E val \in (IF UsesValue(method) THEN Vals ELSE {"none"}) :
           LET r1 == hooks(o, method, key, val, ret, target)
               r2 == hooks(o, method, key, val, ret, target2)
           IN  /\ Len(r1.tgt) <= MaxProps
               /\ Len(r2.tgt) <= MaxProps
               /\ target' = r1.tgt
               /\ target2' = r2.tgt
               /\ trace1' = r1.calls
               /\ trace2' = r2.calls
    /\ UNCHANGED <<nsyms, data, returned, proxies, life, ext, proto, lastOp>>
    /\ UNCHANGED brokerVars
    /\ UNCHANGED refsVars

\* one operation with a private key, performed in one run only; the other
\* run takes no step and adds nothing to its trace
PrivateInOne ==
    /\ \E run \in {1, 2}, o \in 1..Len(proxies), method \in PairMethods,
          ret \in TrapVals, key \in data :
         \E val \in (IF UsesValue(method) THEN Vals ELSE {"none"}) :
           LET r == hooks(o, method, key, val, ret,
                          IF run = 1 THEN target ELSE target2)
           IN  /\ Len(r.tgt) <= MaxProps
               /\ target' = IF run = 1 THEN r.tgt ELSE target
               /\ target2' = IF run = 2 THEN r.tgt ELSE target2
               /\ trace1' = IF run = 1 THEN r.calls ELSE <<>>
               /\ trace2' = IF run = 2 THEN r.calls ELSE <<>>
    /\ UNCHANGED <<nsyms, data, returned, proxies, life, ext, proto, lastOp>>
    /\ UNCHANGED brokerVars
    /\ UNCHANGED refsVars

----------------------------------------------------------------------------
(* Nested proxies: a chain in which each new proxy wraps the one made last *)

MaxDepth == 2
NestedMethods == {"get", "set", "deleteProperty"}

\* new Proxy(p, handler), p being the proxy made last (the raw target for the
\* first one)
ChainProxy ==
    /\ Len(proxies) < MaxDepth
    /\ \E h \in HandlerShapes :
           proxies' = Append(proxies, [target |-> Len(proxies), handler |-> h,
                                    made |-> h])
    /\ life' = Append(life, "plain")
    /\ lastOp' = [NoOp EXCEPT !.op = "Proxy", !.obj = Len(proxies) + 1]
    /\ UNCHANGED <<nsyms, data, returned, target, ext, proto>>
    /\ UNCHANGED brokerVars
    /\ UNCHANGED pairVars
    /\ UNCHANGED refsVars

\* the key-parameterized operations on the proxies of the chain
ChainKeyed == KeyedOn(1..Len(proxies), NestedMethods)

----------------------------------------------------------------------------
(* Reads and writes of a property, on the raw target and through proxies,  *)
(* with two values                                                         *)

WriteVals == {"v1", "v2"}
ReadWriteMethods == {"get", "set", "deleteProperty"}

ReadWrite ==
    KeyedWith(0..Len(proxies), ReadWriteMethods, Keys \ WellKnown, WriteVals)

----------------------------------------------------------------------------
(* Handlers that change after the proxy is made.  The traps involved are   *)
(* get and has, whose default operations call nothing on the receiver.     *)

LateMethods == {"get", "has"}
LateShapes == {{}, LateMethods}

\* new Proxy(target, handler) with a handler of no trap or of both traps
HandlerProxy == ProxyOf(LateShapes, "plain")

\* the user's code: handler[m] = function ... , or delete handler[m]
HandlerToggle ==
    /\ \E o \in 1..Len(proxies), m \in LateMethods :
         /\ proxies' = [proxies EXCEPT
                          ![o].handler = IF m \in @ THEN @ \ {m}
                                         ELSE @ \cup {m}]
         /\ lastOp' = [NoOp EXCEPT !.op = "handler", !.obj = o, !.key = m]
    /\ UNCHANGED <<nsyms, data, returned, target, life, ext, proto>>
    /\ UNCHANGED brokerVars
    /\ UNCHANGED pairVars
    /\ UNCHANGED refsVars

\* get and has on the proxies
HandlerKeyed == KeyedOn(1..Len(proxies), LateMethods)

----------------------------------------------------------------------------
(* The importer that reads exports.__exportedRefs: the second              *)
(* getExportedKeys(source) of commonjs-helpers.js (lines 141-212)          *)

\* the names a module can list in __exportedRefs; "0" is also the name of an
\* array index
RefNames == {"0", "elem"}
\* the property names of the indices of an array, in order
IndexNames == <<"0", "1">>
\* Object.keys order: integer-like names first, then the other strings
RefOrder == <<"0", "elem">>

\* the shapes of exports.__exportedRefs: the names it lists and, of those,
\* the names whose value is a WeakMap; the other values are not weak maps
RefsShapes ==
    {[names |-> N, weak |-> W] : N \in SUBSET RefNames, W \in SUBSET RefNames}
        \ {r \in [names : SUBSET RefNames, weak : SUBSET RefNames] :
             ~(r.weak \subseteq r.names)}
NoRefs == [names |-> {}, weak |-> {}]

\* the shapes of the `mod` argument: null, an object whose exports is null, a
\* module without __exportedRefs, a module with it
RefModKinds == {"null", "exportsNull", "noRefs", "refs"}

\* objectKeys(exportedRefs)
objectKeys(refs) ==
    LET Listed(name) == name \in refs.names
    IN  SelectSeq(RefOrder, Listed)

\* hasOwn(exportedKeys, keys): the array exportedKeys has an own property
\* named String(keys).  String(keys) joins the elements with commas, so it
\* names an index or "length" only when keys has one element.
hasOwn(exportedKeys, keys) ==
    /\ Len(keys) = 1
    /\ \/ keys[1] = "length"
       \/ \E i \in 1..Len(exportedKeys) : keys[1] = IndexNames[i]

\* the first loop of init (lines 187-199): `key` runs over the indices of
\* the array exportedKeys; when the test of line 188 holds, exportedRefs[key]
\* is looked up under the index and must be a WeakMap
censor(refs, keys) ==
    LET exportedKeys == objectKeys(refs)
        indices == {IndexNames[i] : i \in 1..Len(exportedKeys)}
    IN  IF ~hasOwn(exportedKeys, keys)
        THEN [err |-> "none", names |-> {}]
        ELSE IF \E key \in indices : key \notin refs.weak
        THEN [err |-> "Error", names |-> {}]
        ELSE [err |-> "none", names |-> indices]

StringExported(str) == [type |-> "string", str |-> str, names |-> {}]
MapExported(names) == [type |-> "map", str |-> "", names |-> names]

NoRef == [op |-> "none", mod |-> "none", refs |-> NoRefs, keys |-> <<>>,
          obj |-> "none", key |-> "none", val |-> "none", err |-> "none",
          kind |-> "none", msgKey |-> "none", msgFrom |-> "none",
          ret |-> "none", was |-> "none"]

\* the exporting module gives object o its private field: store.set(o, val)
RefStoreInit ==
    /\ \E name \in RefNames, o \in Objects, val \in StoreVals :
         /\ refStores' = [refStores EXCEPT ![name][o] = val]
         /\ lastRef' = [NoRef EXCEPT !.op = "storeInit", !.key = name,
                                     !.obj = o, !.val = val]
    /\ UNCHANGED exported2
    /\ UNCHANGED polyVars
    /\ UNCHANGED brokerVars
    /\ UNCHANGED pairVars

\* init(mod, keys)
RefsInit ==
    /\ \E mod \in RefModKinds, refs \in RefsShapes,
          keys \in ListsUpTo(RefNames, MaxKeys) :
         /\ mod # "refs" => refs = NoRefs
         /\ LET c == censor(refs, keys)
                missing == IF mod = "refs" THEN FirstNotIn(keys, c.names)
                           ELSE "none"
                after == IF mod = "refs" /\ c.err = "none" /\ missing = "none"
                         THEN MapExported(c.names)
                         ELSE exported2
                call == [NoRef EXCEPT !.op = "init", !.mod = mod,
                                      !.refs = refs, !.keys = keys,
                                      !.was = exported2.type]
            IN  IF mod \in {"null", "exportsNull"}
                THEN /\ exported2' = exported2
                     /\ lastRef' = [call EXCEPT !.err = "TypeError",
                                                !.kind = "NotModule"]
                ELSE IF mod = "refs" /\ c.err # "none"
                THEN /\ exported2' = exported2
                     /\ lastRef' = [call EXCEPT !.err = "Error",
                                                !.kind = "MissingStore"]
                ELSE /\ exported2' = after
                     /\ lastRef' =
                          IF after.type = "string"
                          THEN [call EXCEPT
                                  !.err = "ReferenceError",
                                  !.kind = "NotReferenced",
                                  !.msgKey = IF missing # "none" THEN missing
                                             ELSE IF keys = <<>>
                                             THEN "undefined"
                                             ELSE keys[1],
                                  !.msgFrom = after.str]
                          ELSE call
    /\ UNCHANGED refStores
    /\ UNCHANGED polyVars
    /\ UNCHANGED brokerVars
    /\ UNCHANGED pairVars

\* transact(O, key) (lines 152-168)
refsTransact(O, key) ==
    IF exported2.type = "string"
    THEN [err |-> "ReferenceError", kind |-> "NotReferenced"]
    ELSE IF key \notin exported2.names
    THEN [err |-> "Error", kind |-> "InvalidKey"]
    ELSE IF O \in NonObjects
    THEN [err |-> "TypeError", kind |-> "TypeMismatch"]
    ELSE IF refStores[key][O] = "absent"
    THEN [err |-> "TypeError", kind |-> "MissingField"]
    ELSE [err |-> "none", kind |-> "none"]

\* get(O, key): weakGet(transact(O, key), O)
RefsGet ==
    /\ \E O \in Objects \cup NonObjects, key \in RefNames :
         LET t == refsTransact(O, key)
         IN  lastRef' = [NoRef EXCEPT
                           !.op = "get", !.obj = O, !.key = key,
                           !.err = t.err, !.kind = t.kind,
                           !.ret = IF t.err = "none" THEN refStores[key][O]
                                   ELSE "none"]
    /\ UNCHANGED <<exported2, refStores>>
    /\ UNCHANGED polyVars
    /\ UNCHANGED brokerVars
    /\ UNCHANGED pairVars

\* the arguments of weakSet(transact(O, key), O, V) (line 172) are evaluated
\* in order: transact runs first; then V, a name no scope declares, raises a
\* ReferenceError in strict mode before weakSet is called
setOutcome(O, key, value) ==
    LET t == refsTransact(O, key)
    IN  IF t.err # "none"
        THEN [err |-> t.err, kind |-> t.kind, ret |-> "none",
              stores |-> refStores]
        ELSE [err |-> "ReferenceError", kind |-> "UndeclaredName",
              ret |-> "none", stores |-> refStores]

\* set(O, key, value)
RefsSet ==
    /\ \E O \in Objects \cup NonObjects, key \in RefNames, value \in StoreVals :
         LET r == setOutcome(O, key, value)
         IN  /\ refStores' = r.stores
             /\ lastRef' = [NoRef EXCEPT
                              !.op = "set", !.obj = O, !.key = key,
                              !.val = value, !.err = r.err, !.kind = r.kind,
                              !.ret = r.ret]
    /\ UNCHANGED exported2
    /\ UNCHANGED polyVars
    /\ UNCHANGED brokerVars
    /\ UNCHANGED pairVars

InitPoly ==
    /\ nsyms = 0
    /\ data = {}
    /\ returned = {}
    /\ target = <<>>
    /\ proxies = <<>>
    /\ life = <<>>
    /\ ext = TRUE
    /\ proto = "Function.prototype"
    /\ lastOp = NoOp

InitBroker ==
    /\ setup = NoSetup
    /\ exporter = "none"
    /\ fallback = {}
    /\ resolved = [f \in {} |-> {}]
    /\ exported = {}
    /\ stores = [name \in StoreNames |-> [o \in Objects |-> "absent"]]
    /\ nsessions = 0
    /\ sessions = <<>>
    /\ result = StringResult(Source)
    /\ poisoned = FALSE
    /\ missingHook = FALSE
    /\ lastCall = [op |-> "none", mod |-> "none", file |-> "none",
                   keys |-> <<>>, obj |-> "none", key |-> "none",
                   val |-> "none", err |-> "none", kind |-> "none",
                   msgKey |-> "none", msgFrom |-> "none", ret |-> "none",
                   session |-> 0, was |-> "none"]

InitPair ==
    /\ target2 = <<>>
    /\ trace1 = <<>>
    /\ trace2 = <<>>

InitRefs ==
    /\ exported2 = StringExported(Source)
    /\ refStores = [name \in RefNames |-> [o \in Objects |-> "absent"]]
    /\ lastRef = NoRef

Init == InitPoly /\ InitBroker /\ InitPair /\ InitRefs

Next ==
    \/ SymbolPrivate
    \/ SymbolIsPrivate
    \/ NewProxy
    \/ Keyed

Spec == Init /\ [][Next]_vars

NextKeys ==
    \/ SymbolPrivate
    \/ NewProxy
    \/ TargetSet
    \/ OwnKeys

SpecKeys == Init /\ [][NextKeys]_vars

NextReflect ==
    \/ SymbolPrivate
    \/ TargetKeyed
    \/ ReflectOwnKeys
    \/ ObjectGetOwnPropertySymbols
    \/ ObjectGetOwnPropertyDescriptors

SpecReflect == Init /\ [][NextReflect]_vars

NextPair ==
    \/ SymbolPrivate
    \/ NewProxy
    \/ PublicInBoth
    \/ PrivateInOne

SpecPair == Init /\ [][NextPair]_vars

NextNested ==
    \/ SymbolPrivate
    \/ ChainProxy
    \/ ChainKeyed

SpecNested == Init /\ [][NextNested]_vars

NextReadWrite ==
    \/ SymbolPrivate
    \/ NewProxy
    \/ ReadWrite

SpecReadWrite == Init /\ [][NextReadWrite]_vars

NextHandler ==
    \/ SymbolPrivate
    \/ HandlerProxy
    \/ HandlerToggle
    \/ HandlerKeyed

SpecHandler == Init /\ [][NextHandler]_vars

NextRefs ==
    \/ RefStoreInit
    \/ RefsInit
    \/ RefsGet
    \/ RefsSet

SpecRefs == Init /\ [][NextRefs]_vars

NextForward ==
    \/ SymbolPrivate
    \/ ForwardProxy
    \/ Forwarded

SpecForward == Init /\ [][NextForward]_vars

NextRevoke ==
    \/ SymbolPrivate
    \/ ProxyRevocable
    \/ Revoke
    \/ RevocableKeyed
    \/ RevocableForwarded
    \/ RevocableOwnKeys

SpecRevoke == Init /\ [][NextRevoke]_vars

NextBroker ==
    \/ makeExportedKeys
    \/ StoreInit
    \/ ImporterInit
    \/ ImporterGet
    \/ ImporterSet

SpecBroker == Init /\ [][NextBroker]_vars

NextSession ==
    \/ makeExportedKeys
    \/ StoreInit
    \/ FactoryCall
    \/ SessionGet
    \/ SessionSet

SpecSession == Init /\ [][NextSession]_vars

----------------------------------------------------------------------------
(* Properties of the polyfill *)

Props(props) == {<<props[i].key, props[i].value>> : i \in 1..Len(props)}
OwnKeySet(props) == {props[i].key : i \in 1..Len(props)}

\* What an operation with default semantics does on the raw target, stated
\* on the target before (props) and after (props2) and on the result.
DefaultOutcome(method, key, val, res, props, props2) ==
    CASE method \in {"get", "getOwnPropertyDescriptor"} ->
           /\ props2 = props
           /\ \/ <<key, res>> \in Props(props)
              \/ key \notin OwnKeySet(props) /\ res = "undefined"
      [] method = "has" ->
           /\ props2 = props
           /\ res = "true" <=> key \in OwnKeySet(props)
           /\ res \in {"true", "false"}
      [] method \in {"set", "defineProperty"} ->
           /\ res = "true"
           /\ Props(props2) =
                {p \in Props(props) : p[1] # key} \cup {<<key, val>>}
      [] method = "deleteProperty" ->
           /\ res = "true"
           /\ Props(props2) = {p \in Props(props) : p[1] # key}

\* C1: a key-parameterized operation on a filtered proxy with a private key
\* invokes no trap of any user handler, whether or not the handler defines
\* one, and has the outcome of the default operation on the raw target.
C1_PrivateKeyBypassesHandler ==
    [][(lastOp'.op \in KeyedMethods /\ lastOp'.obj # 0 /\ lastOp'.key \in data)
         => /\ lastOp'.calls = <<>>
            /\ DefaultOutcome(lastOp'.op, lastOp'.key, lastOp'.val,
                              lastOp'.res, target, target')]_vars

\* Scenario A: a handler with a get trap, a private key the target lacks
C1_Witness ==
    /\ lastOp.op = "get" /\ lastOp.obj # 0 /\ lastOp.key \in data
    /\ "get" \in proxies[lastOp.obj].handler
    /\ lastOp.res = "undefined"

TrapCalled == lastOp.op = "ownKeys" /\ lastOp.calls # <<>>

\* C2 as claimed: when the user's ownKeys trap returns L, the enumeration
\* returns L without its private keys, the other keys in their order.
C2_TrapListIsStripped ==
    TrapCalled =>
        /\ lastOp.status = "ok"
        /\ lastOp.keys = SelectSeq(lastOp.list, NotPrivate)

\* C2 as amended: when the user's ownKeys trap returns L, the enumeration
\* returns L itself, in order, if L holds no private key, and raises a
\* TypeError if L holds one: nothing is removed.
C2_TrapListPassesOrThrows ==
    TrapCalled =>
        IF \E i \in 1..Len(lastOp.list) : lastOp.list[i] \in data
        THEN lastOp.status = "TypeError" /\ lastOp.keys = <<>>
        ELSE lastOp.status = "ok" /\ lastOp.keys = lastOp.list

\* Scenario C: the trap returns [publicKey, privateKey]
C2_Witness ==
    /\ TrapCalled
    /\ Len(lastOp.list) = 2
    /\ lastOp.list[1] = "pub" /\ lastOp.list[2] \in data
    /\ lastOp.status = "TypeError"

\* C3: with no ownKeys trap supplied, the filtered handler's ownKeys returns
\* the default enumeration of the target and it never holds a private key.
C3_DefaultEnumerationHidesPrivate ==
    (lastOp.op = "ownKeys" /\ lastOp.calls = <<>>) =>
        /\ lastOp.status = "ok"
        /\ \A i \in 1..Len(lastOp.keys) : lastOp.keys[i] \notin data

\* C4: if the list the user's ownKeys trap returns holds a private key that
\* is not an own key of the target, the enumeration raises a TypeError and
\* returns no list.
C4_FabricatedPrivateKeyThrows ==
    (/\ TrapCalled
     /\ \E i \in 1..Len(lastOp.list) :
            lastOp.list[i] \in data /\ lastOp.list[i] \notin OwnKeySet(target))
        => lastOp.status = "TypeError" /\ lastOp.keys = <<>>

C4_Witness ==
    /\ TrapCalled
    /\ Len(lastOp.list) = 2
    /\ lastOp.list[2] \in data /\ lastOp.list[2] \notin OwnKeySet(target)
    /\ lastOp.list[1] \notin data
    /\ lastOp.status = "TypeError"

\* C5: a key-parameterized operation on a filtered proxy with a key that is
\* not private calls the handler's trap for the operation, if it has one,
\* exactly once with the original arguments and returns the trap's result;
\* if it has none, the operation has the default outcome on the target.
C5_PublicKeyForwarded ==
    [][(lastOp'.op \in KeyedMethods /\ lastOp'.obj # 0 /\ lastOp'.key \notin data)
         => IF lastOp'.op \in proxies[lastOp'.obj].handler
            THEN /\ lastOp'.calls =
                      <<[proxy |-> lastOp'.obj, method |-> lastOp'.op,
                         target |-> proxies[lastOp'.obj].target,
                         key |-> lastOp'.key, val |-> lastOp'.val]>>
                 /\ lastOp'.res \in TrapVals
                 /\ target' = target
            ELSE proxies[lastOp'.obj].target = 0
                   => /\ lastOp'.calls = <<>>
                      /\ DefaultOutcome(lastOp'.op, lastOp'.key, lastOp'.val,
                                        lastOp'.res, target, target')]_vars

\* Scenario B: a handler with a get trap, a key that is not private
C5_Witness ==
    /\ lastOp.op = "set" /\ lastOp.obj # 0 /\ lastOp.key \notin data
    /\ data # {}
    /\ "set" \in proxies[lastOp.obj].handler
    /\ Len(lastOp.calls) = 1 /\ lastOp.res \in TrapVals

\* C6: Symbol.isPrivate(k) returns true for every key k that Symbol.private
\* returned and false for every other symbol.
C6_IsPrivateAnswers ==
    (lastOp.op = "isPrivate" /\ lastOp.key \in AllSymbols) =>
        /\ lastOp.status = "ok"
        /\ lastOp.res = IF lastOp.key \in returned THEN "true" ELSE "false"

\* C7: the registry holds exactly the keys Symbol.private has returned; each
\* creation adds one key that was not in it, and no step removes a key.
C7_RegistryIsCreatedKeys ==
    /\ data = returned
    /\ [][/\ data \subseteq data'
          /\ data' = returned'
          /\ IF lastOp'.op = "private"
             THEN lastOp'.res \notin data /\ data' = data \cup {lastOp'.res}
             ELSE data' = data]_vars

C7_Witness ==
    /\ data # {}
    /\ lastOp.op \in KeyedMethods
    /\ lastOp.key \in data

----------------------------------------------------------------------------
(* Properties of the exported-key helpers *)

\* globalKeys \cup perConsumerKeys[consumer], from the arguments of the setup
EffectiveAllowList(filename) ==
    Range(setup.all) \cup
    UNION {Range(setup.scoped[spec]) :
             spec \in {sp \in DOMAIN setup.scoped : Resolve(sp) = filename}}

InitReachesFactory(call) == call.op = "init" /\ call.mod = "hooked"

\* every requested key is in the allow-list the factory applies
InitAuthorized(call) ==
    /\ InitReachesFactory(call)
    /\ Range(call.keys) \subseteq allowedFor(call.file)

\* C8: after an init that failed because the factory reported key name K as
\* unauthorized, a get or set call fails with a reference error that cites
\* K and the source given to getExportedKeys.
C8_PoisonedAccessCitesKeyAndSource ==
    [][(/\ lastCall.op = "init" /\ lastCall.ret \in RequestNames
        /\ lastCall'.op \in {"get", "set"})
         => /\ lastCall'.err = "ReferenceError"
            /\ lastCall.ret \in {lastCall'.msgKey, lastCall'.msgFrom}
            /\ Source \in {lastCall'.msgKey, lastCall'.msgFrom}]_vars

\* C9 as claimed: once Poisoned, the binding is Poisoned after every step.
C9_PoisonedForever ==
    [][Binding = "Poisoned" => Binding' = "Poisoned"]_vars

\* C9 as amended: a Poisoned binding stays Poisoned through every call but
\* an init against a module with the broker hook whose requested keys are
\* all in the caller's effective allow-list; that init makes it Bound.
C9_PoisonedUntilInitSucceeds ==
    [][Binding = "Poisoned"
         => IF InitAuthorized(lastCall')
            THEN Binding' = "Bound"
            ELSE Binding' = "Poisoned"]_vars

C9_Witness ==
    /\ lastCall.op = "init" /\ lastCall.was = "Poisoned"
    /\ lastCall.mod = "hooked" /\ lastCall.file = "/b.js"
    /\ Binding = "Poisoned"

\* C10 as claimed: once Bound, the binding stays Bound after every step, to
\* a session that authorizes the same key names.
C10_BoundForever ==
    [][Binding = "Bound"
         => Binding' = "Bound" /\ result'.refs = result.refs]_vars

\* C10 as amended: a Bound binding keeps its session through get, set and
\* every init that does not reach the factory; an init against a module with
\* the broker hook replaces it by what the factory returns: a new session
\* for the requested keys, or the first unauthorized key name (Poisoned).
C10_BoundUntilFactoryCalled ==
    [][Binding = "Bound"
         => IF InitAuthorized(lastCall')
            THEN /\ result'.type = "session"
                 /\ result'.id # result.id
                 /\ result'.refs = Range(lastCall'.keys)
            ELSE IF InitReachesFactory(lastCall')
            THEN /\ result'.type = "string"
                 /\ result'.str = FirstNotIn(lastCall'.keys,
                                             allowedFor(lastCall'.file))
                 /\ Binding' = "Poisoned"
            ELSE result' = result]_vars

C10_Witness ==
    /\ lastCall.op = "init" /\ lastCall.was = "Bound"
    /\ lastCall.mod = "noHook" /\ lastCall.err = "none"
    /\ Binding = "Bound"

\* the importer's init has made a session: every session the factory has
\* returned went either to a direct caller or to an init of the importer
InitHasSucceeded == nsessions > Len(sessions)

\* C11: a get or set call of the importer made before any init call has
\* succeeded fails with a reference error that names the requested key and
\* the source given to getExportedKeys, and changes no store.
C11_AccessBeforeInitCitesKeyAndSource ==
    [][(~InitHasSucceeded /\ lastCall'.op \in {"get", "set"})
         => /\ lastCall'.err = "ReferenceError"
            /\ lastCall'.msgKey = lastCall'.key
            /\ lastCall'.msgFrom = Source
            /\ stores' = stores]_vars

SessionOps == {"session.get", "session.set"}

\* C12: a session the factory made for the requested keys S authorizes
\* exactly S, and its get and set with a key name outside S fail with
\* InvalidKey, return nothing and change no store, whatever the allow-list
\* of the consumer or the other sessions authorize.
C12_UnrequestedKeyIsInvalid ==
    [][/\ (lastCall'.op = "factory" /\ lastCall'.ret = "session")
            => sessions'[lastCall'.session].refs = Range(lastCall'.keys)
       /\ (/\ lastCall'.op \in SessionOps
           /\ lastCall'.key \notin sessions[lastCall'.session].refs)
            => /\ lastCall'.err = "Error"
               /\ lastCall'.kind = "InvalidKey"
               /\ lastCall'.ret = "none"
               /\ stores' = stores]_vars

\* a set through a session that did not request "x", while another session
\* authorizes "x" and the object has the field
C12_Witness ==
    /\ lastCall.op = "session.set" /\ lastCall.key = "x"
    /\ lastCall.kind = "InvalidKey"
    /\ lastCall.obj \in Objects /\ stores["x"][lastCall.obj] # "absent"
    /\ "x" \notin sessions[lastCall.session].refs
    /\ \E j \in 1..Len(sessions) : "x" \in sessions[j].refs

\* C13: get and set through a session, with a key name the session
\* authorizes, on an object with no entry in that key's store fail with
\* MissingField: get returns no value and set creates no entry.
C13_MissingFieldIsReported ==
    [][(/\ lastCall'.op \in SessionOps
        /\ lastCall'.key \in sessions[lastCall'.session].refs
        /\ lastCall'.obj \in Objects
        /\ stores[lastCall'.key][lastCall'.obj] = "absent")
         => /\ lastCall'.err = "TypeError"
            /\ lastCall'.kind = "MissingField"
            /\ lastCall'.ret = "none"
            /\ stores' = stores]_vars

C13_Witness ==
    /\ lastCall.op = "session.set"
    /\ lastCall.key \in sessions[lastCall.session].refs
    /\ lastCall.kind = "MissingField"
    /\ stores[lastCall.key][lastCall.obj] = "absent"

C15_AllowListIsGlobalPlusScoped ==
    /\ exporter = "ready"
         => \A f \in Files : allowedFor(f) = EffectiveAllowList(f)
    /\ lastCall.op = "factory"
         => (lastCall.ret = "session"
               <=> Range(lastCall.keys) \subseteq
                     EffectiveAllowList(lastCall.file))

HasField(call) ==
    /\ call.op \in SessionOps
    /\ call.key \in sessions[call.session].refs
    /\ call.obj \in Objects
    /\ stores[call.key][call.obj] # "absent"

\* C16: through any session that authorizes the key, on an object that has
\* the field, set overwrites the entry and returns the value written, and
\* get returns the entry and changes nothing; the entry changes in no other
\* step but the exporting module's own write, so a get returns the value of
\* the most recent write.
C16_GetReturnsLastWrite ==
    [][/\ (HasField(lastCall') /\ lastCall'.op = "session.set")
            => /\ lastCall'.err = "none"
               /\ lastCall'.ret = lastCall'.val
               /\ stores' = [stores EXCEPT ![lastCall'.key][lastCall'.obj] =
                                              lastCall'.val]
       /\ (HasField(lastCall') /\ lastCall'.op = "session.get")
            => /\ lastCall'.err = "none"
               /\ lastCall'.ret = stores[lastCall'.key][lastCall'.obj]
               /\ stores' = stores
       /\ lastCall'.op \notin {"session.set", "storeInit"}
            => stores' = stores]_vars

\* a get through the second session reads "v2" from an entry both sessions
\* authorize
C16_Witness ==
    /\ lastCall.op = "session.get" /\ lastCall.session = 2
    /\ lastCall.err = "none" /\ lastCall.ret = "v2"
    /\ lastCall.key \in sessions[1].refs

\* C17: makeExportedKeys throws, and returns no factory, exactly if a name
\* in `all` or in a list of `scoped` has no weak map in internalRefs.
C17_SetupFailsIffStoreMissing ==
    exporter # "none" =>
        /\ exporter = "failed" <=>
             \E name \in Range(setup.all) \cup
                         UNION {Range(setup.scoped[sp]) :
                                  sp \in DOMAIN setup.scoped} :
                 name \notin DOMAIN stores
        /\ exporter = "failed"
             => /\ fallback = {} /\ exported = {} /\ DOMAIN resolved = {}
                /\ nsessions = 0 /\ sessions = <<>>
                /\ lastCall.op \notin {"factory"} \cup SessionOps
        /\ lastCall.op = "makeExportedKeys"
             => IF exporter = "failed"
                THEN lastCall.err = "Error" /\ lastCall.ret = "none"
                ELSE lastCall.err = "none" /\ lastCall.ret = "factory"

\* the names of `all` have stores, a name scoped to ./a has none
C17_Witness ==
    /\ exporter = "failed"
    /\ Range(setup.all) \subseteq DOMAIN stores
    /\ "./a" \in DOMAIN setup.scoped
    /\ "y" \in Range(setup.scoped["./a"])

\* C18: after an init in which the factory returned a session for the
\* requested keys S, the importer's get and set do what that session's get
\* and set do: InvalidKey for a key outside S, TypeMismatch for a non-object,
\* MissingField for an object without the field, and otherwise the entry is
\* read, or written and the written value returned; no reference error.
C18_BoundImporterActsAsSession ==
    [][/\ (lastCall'.op = "init" /\ lastCall'.ret = "session")
            => /\ result'.type = "session"
               /\ result'.refs = Range(lastCall'.keys)
       /\ (Binding = "Bound" /\ lastCall'.op \in {"get", "set"})
            => LET O == lastCall'.obj
                   key == lastCall'.key
                   fails(err, kind) ==
                       /\ lastCall'.err = err /\ lastCall'.kind = kind
                       /\ lastCall'.ret = "none"
                       /\ stores' = stores
               IN  IF key \notin result.refs
                   THEN fails("Error", "InvalidKey")
                   ELSE IF O \in NonObjects
                   THEN fails("TypeError", "TypeMismatch")
                   ELSE IF stores[key][O] = "absent"
                   THEN fails("TypeError", "MissingField")
                   ELSE IF lastCall'.op = "get"
                   THEN /\ lastCall'.err = "none"
                        /\ lastCall'.ret = stores[key][O]
                        /\ stores' = stores
                   ELSE /\ lastCall'.err = "none"
                        /\ lastCall'.ret = lastCall'.val
                        /\ stores' = [stores EXCEPT ![key][O] = lastCall'.val]]_vars

\* a set through the bound importer overwrites "v1" by "v2"
C18_Witness ==
    /\ Binding = "Bound"
    /\ lastCall.op = "set" /\ lastCall.err = "none"
    /\ lastCall.ret = "v2"
    /\ stores[lastCall.key][lastCall.obj] = "v2"
    /\ lastCall.key \in result.refs

----------------------------------------------------------------------------
(* Properties of the polyfill: revocation and the traps that take no key *)

\* What a non-key-parameterized operation with default semantics does on
\* the raw target, stated on its [[Extensible]] and [[Prototype]] before
\* (e, p) and after (e2, p2) and on the result.
DefaultForward(method, val, res, e, p, e2, p2) ==
    CASE method = "apply" -> res = "returned" /\ e2 = e /\ p2 = p
      [] method = "construct" -> res = "instance" /\ e2 = e /\ p2 = p
      [] method = "isExtensible" ->
           /\ res = (IF e THEN "true" ELSE "false")
           /\ e2 = e /\ p2 = p
      [] method = "preventExtensions" -> res = "true" /\ ~e2 /\ p2 = p
      [] method = "getPrototypeOf" -> res = p /\ e2 = e /\ p2 = p
      [] method = "setPrototypeOf" ->
           /\ e2 = e
           /\ IF e THEN res = "true" /\ p2 = val
              ELSE p2 = p /\ res = (IF val = p THEN "true" ELSE "false")

\* C19: every operation on a proxy made by Proxy.revocable, after its
\* revoke() was called, throws a TypeError, with a private key as with any
\* other key, calls no trap and leaves the target as it is; before revoke()
\* the proxy answers as one made by new Proxy does: the user's trap for a
\* key that is not private, the default operation on the target otherwise.
C19_RevokedProxyFails ==
    [][(lastOp'.op \in KeyedMethods \cup ForwardMethods \cup {"ownKeys"}
        /\ lastOp'.obj # 0 /\ life[lastOp'.obj] # "plain")
         => LET o == lastOp'.obj
                m == lastOp'.op
                unchanged == target' = target /\ ext' = ext /\ proto' = proto
                trapped == IF m \in KeyedMethods
                           THEN lastOp'.key \notin data
                                  /\ m \in proxies[o].handler
                           ELSE m \in proxies[o].handler
                trap == [proxy |-> o, method |-> m,
                         target |-> proxies[o].target,
                         key |-> lastOp'.key, val |-> lastOp'.val]
            IN  IF life[o] = "revoked"
                THEN /\ lastOp'.status = "TypeError"
                     /\ lastOp'.calls = <<>>
                     /\ lastOp'.res = "none" /\ lastOp'.keys = <<>>
                     /\ unchanged
                ELSE IF trapped
                THEN /\ lastOp'.calls = <<trap>>
                     /\ unchanged
                     /\ m # "ownKeys"
                          => lastOp'.status = "ok" /\ lastOp'.res \in TrapVals
                ELSE proxies[o].target = 0
                       => /\ lastOp'.calls = <<>>
                          /\ lastOp'.status = "ok"
                          /\ CASE m \in KeyedMethods ->
                                    DefaultOutcome(m, lastOp'.key, lastOp'.val,
                                                   lastOp'.res, target, target')
                               [] m \in ForwardMethods ->
                                    DefaultForward(m, lastOp'.val, lastOp'.res,
                                                   ext, proto, ext', proto')
                               [] m = "ownKeys" ->
                                    lastOp'.keys = ownKeys(target)]_vars

\* a get with a private key on a revoked proxy whose handler has a get trap
C19_Witness ==
    /\ lastOp.op = "get" /\ lastOp.obj # 0
    /\ life[lastOp.obj] = "revoked"
    /\ lastOp.key \in data
    /\ "get" \in proxies[lastOp.obj].handler
    /\ lastOp.status = "TypeError"

\* C20: a non-key-parameterized operation on a filtered proxy calls the
\* handler's trap for it, if the handler has one, once with the original
\* arguments, and otherwise has the default outcome on the raw target,
\* whatever the registry holds.
C20_NonKeyedAlwaysForwarded ==
    [][(lastOp'.op \in ForwardMethods /\ lastOp'.obj # 0
        /\ ~IsRevoked(lastOp'.obj))
         => IF lastOp'.op \in proxies[lastOp'.obj].handler
            THEN /\ lastOp'.calls =
                      <<[proxy |-> lastOp'.obj, method |-> lastOp'.op,
                         target |-> proxies[lastOp'.obj].target,
                         key |-> "none", val |-> lastOp'.val]>>
                 /\ lastOp'.res \in TrapVals
                 /\ ext' = ext /\ proto' = proto
            ELSE proxies[lastOp'.obj].target = 0
                   => /\ lastOp'.calls = <<>>
                      /\ DefaultForward(lastOp'.op, lastOp'.val, lastOp'.res,
                                        ext, proto, ext', proto')]_vars

\* a setPrototypeOf trap is called while the registry holds a private key
C20_Witness ==
    /\ lastOp.op = "setPrototypeOf" /\ lastOp.obj # 0
    /\ data # {}
    /\ "setPrototypeOf" \in proxies[lastOp.obj].handler
    /\ "construct" \notin proxies[lastOp.obj].handler
    /\ Len(lastOp.calls) = 1 /\ lastOp.res \in TrapVals

----------------------------------------------------------------------------
(* Properties of the patched Object and Reflect methods *)

\* C21: on the raw target, Reflect.ownKeys and Object.getOwnPropertySymbols
\* return the native list without its private keys, the other keys in the
\* native order, and Object.getOwnPropertyDescriptors returns the native
\* entries but those of private keys; none of them outputs a private key.
C21_ReflectionOmitsPrivateKeys ==
    /\ lastOp.op = "Reflect.ownKeys"
         => lastOp.keys = SelectSeq(ownKeys(target), NotPrivate)
    /\ lastOp.op = "Object.getOwnPropertySymbols"
         => lastOp.keys = SelectSeq(getOwnPropertySymbols(target), NotPrivate)
    /\ lastOp.op = "Object.getOwnPropertyDescriptors"
         => /\ lastOp.keys = SelectSeq(ownKeys(target), NotPrivate)
            /\ \A i \in 1..Len(lastOp.keys) :
                   lastOp.list[i] = ValueOf(target, lastOp.keys[i])
    /\ lastOp.op \in {"Reflect.ownKeys", "Object.getOwnPropertySymbols",
                      "Object.getOwnPropertyDescriptors"}
         => \A i \in 1..Len(lastOp.keys) : lastOp.keys[i] \notin data

\* the target holds a private key before a public symbol; the symbols
\* listed are the public one alone
C21_Witness ==
    /\ lastOp.op = "Object.getOwnPropertySymbols"
    /\ Len(target) = 2
    /\ target[1].key \in data /\ target[2].key = "iterator"
    /\ lastOp.keys = <<"iterator">>

\* C22: an init call whose `mod` is null, a primitive, or an object whose exports
\* is null, a primitive or a function raises the TypeError without calling the
\* broker hook, and leaves the binding (result, sessions) as it was.
C22_NonModuleInitLeavesBinding ==
    [][(/\ lastCall' # lastCall
        /\ lastCall'.op = "init"
        /\ lastCall'.mod \in {"null", "prim", "exportsNull", "exportsPrim",
                              "exportsFunction"})
       => /\ lastCall'.err = "TypeError"
          /\ lastCall'.ret = "none"
          /\ result' = result
          /\ poisoned' = poisoned
          /\ nsessions' = nsessions
          /\ sessions' = sessions
          /\ Binding' = Binding
          /\ Binding' = lastCall'.was]_vars

C22_Witness ==
    /\ lastCall.op = "init"
    /\ lastCall.mod = "exportsFunction"
    /\ lastCall.err = "TypeError"
    /\ lastCall.was = "Bound"
    /\ Binding = "Bound"

\* C23: Symbol.isPrivate raises a TypeError for every argument that is not a
\* symbol, and for every symbol argument it returns a boolean without raising.
C23_IsPrivateTypeChecks ==
    lastOp.op = "isPrivate" =>
        IF lastOp.key \in AllSymbols
        THEN lastOp.status = "ok" /\ lastOp.res \in {"true", "false"}
        ELSE lastOp.status = "TypeError"

\* C24: a session's get and set test the key, then the target, then the store:
\* a key the session does not authorize fails with InvalidKey whatever the
\* target is; an authorized key with a null or primitive target fails with
\* TypeMismatch; MissingField is raised only for an authorized key and an
\* object target.
C24_ChecksAreOrdered ==
    [][lastCall'.op \in SessionOps
         => LET refs == sessions[lastCall'.session].refs
            IN  /\ lastCall'.key \notin refs
                     => lastCall'.err = "Error" /\ lastCall'.kind = "InvalidKey"
                /\ (lastCall'.key \in refs /\ lastCall'.obj \in NonObjects)
                     => /\ lastCall'.err = "TypeError"
                        /\ lastCall'.kind = "TypeMismatch"
                /\ lastCall'.kind = "MissingField"
                     => /\ lastCall'.key \in refs
                        /\ lastCall'.obj \in Objects
                        /\ stores[lastCall'.key][lastCall'.obj] = "absent"]_vars

\* an unauthorized key with a primitive target
C24_Witness ==
    /\ lastCall.op = "session.get"
    /\ lastCall.obj = "prim"
    /\ lastCall.key \notin sessions[lastCall.session].refs
    /\ lastCall.kind = "InvalidKey"

\* C25: two runs that perform the same operations with non-private keys on
\* the proxies, and any private-key operations of their own, see the same
\* sequence of user trap invocations with the same arguments: every step adds
\* the same invocations to the trace of both runs.
C25_TrapTraceIgnoresPrivateOps == trace1 = trace2

\* the first run has written a private key that the second has not, and an
\* operation performed on those different targets has run a trap in both
C25_Witness ==
    /\ \E k \in data : HasOwn(target, k) /\ ~HasOwn(target2, k)
    /\ trace1 # <<>>
    /\ trace2 = trace1

(* Properties of the importer's init *)

\* C26: when the factory returns the name K of the first requested key that
\* the caller may not reference, the reference error that init raises names
\* K as the key and the source given to getExportedKeys as the place it could
\* not be referenced from.
C26_InitErrorCitesKeyAndSource ==
    (/\ lastCall.op = "init" /\ lastCall.mod = "hooked"
     /\ lastCall.ret \in RequestNames)
      => /\ lastCall.err = "ReferenceError"
         /\ lastCall.msgKey = lastCall.ret
         /\ lastCall.msgFrom = Source

\* an init call on the Unbound binding with a module that has no broker hook
MissingHookInit ==
    /\ lastCall' # lastCall
    /\ lastCall'.op = "init" /\ lastCall'.mod = "noHook"
    /\ Binding = "Unbound"

\* C27 as stated: an init on the Unbound binding against a module without the
\* broker hook raises a reference error naming the source and poisons the
\* binding, and every get and set made after it raises a reference error.
C27_MissingHookPoisonsForever ==
    [][/\ MissingHookInit
            => /\ lastCall'.err = "ReferenceError"
               /\ lastCall'.msgFrom = Source
               /\ Binding' = "Poisoned"
       /\ (missingHook /\ lastCall'.op \in {"get", "set"})
            => lastCall'.err = "ReferenceError"]_vars

\* C27: an init on the Unbound binding against a module without the broker
\* hook raises a reference error naming the source and poisons the binding;
\* every get and set made after it raises a reference error, until a later
\* init obtains a session from a broker hook.
C27_MissingHookPoisonsUntilInit ==
    [][/\ MissingHookInit
            => /\ lastCall'.err = "ReferenceError"
               /\ lastCall'.msgFrom = Source
               /\ Binding' = "Poisoned"
               /\ result' = result
       /\ (missingHook /\ ~InitHasSucceeded /\ lastCall'.op \in {"get", "set"})
            => /\ lastCall'.err = "ReferenceError"
               /\ lastCall'.kind = "NotReferenced"
               /\ lastCall'.ret = "none"]_vars

\* a get on an object that has the field, after the missing hook and before
\* any init has obtained a session, while the exporter is ready
C27_Witness ==
    /\ missingHook /\ ~InitHasSucceeded
    /\ exporter = "ready"
    /\ lastCall.op = "get" /\ lastCall.err = "ReferenceError"
    /\ lastCall.obj \in Objects
    /\ stores[lastCall.key][lastCall.obj] # "absent"

(* Properties of nested proxies *)

\* C28: a key-parameterized operation with a private key on a proxy whose
\* target is itself a proxy invokes no user trap at any level of the chain
\* and has the outcome of the default operation on the innermost raw target.
C28_BypassIsRecursive ==
    [][(/\ lastOp'.op \in KeyedMethods /\ lastOp'.obj # 0
        /\ proxies[lastOp'.obj].target # 0
        /\ lastOp'.key \in data)
         => /\ lastOp'.calls = <<>>
            /\ lastOp'.status = "ok"
            /\ DefaultOutcome(lastOp'.op, lastOp'.key, lastOp'.val,
                              lastOp'.res, target, target')]_vars

\* a set of a private key through a proxy of a proxy, both with a set trap,
\* lands on the raw target
C28_Witness ==
    /\ lastOp.op = "set" /\ lastOp.obj = 2 /\ lastOp.key \in data
    /\ proxies[2].target = 1 /\ proxies[1].target = 0
    /\ "set" \in proxies[2].handler /\ "set" \in proxies[1].handler
    /\ lastOp.calls = <<>>
    /\ HasOwn(target, lastOp.key)

(* Properties of private keys as property keys *)

\* the last operation was a successful set of a private key through a proxy
PrivateKeyWritten ==
    /\ lastOp.op = "set" /\ lastOp.obj # 0
    /\ lastOp.key \in data /\ lastOp.res = "true"

\* C29: through a filtered proxy a private key is an ordinary key of the raw
\* target: a successful set of private key k to v through a proxy, whatever
\* its handler, makes k an own property of the raw target holding v; a get of
\* k that follows, through a proxy or on the target itself, returns v; a
\* delete of k through a proxy that follows removes it from the target.
C29_PrivateKeyIsOrdinaryOnTarget ==
    [][/\ PrivateKeyWritten'
            => /\ HasOwn(target', lastOp'.key)
               /\ ValueOf(target', lastOp'.key) = lastOp'.val
       /\ (PrivateKeyWritten /\ lastOp'.op = "get"
                             /\ lastOp'.key = lastOp.key)
            => /\ lastOp'.res = lastOp.val
               /\ lastOp'.calls = <<>>
       /\ (/\ PrivateKeyWritten /\ lastOp'.op = "deleteProperty"
           /\ lastOp'.obj # 0 /\ lastOp'.key = lastOp.key)
            => /\ lastOp'.res = "true"
               /\ ~HasOwn(target', lastOp.key)]_vars

\* a get through a proxy with a get trap returns the second value, which a
\* set through the proxy stored on the raw target
C29_Witness ==
    /\ lastOp.op = "get" /\ lastOp.obj # 0 /\ lastOp.key \in data
    /\ "get" \in proxies[lastOp.obj].handler
    /\ "set" \in proxies[lastOp.obj].handler
    /\ lastOp.res = "v2"
    /\ ValueOf(target, lastOp.key) = "v2"

(* Properties of the filtered handler and the user handler *)

\* C30: making a proxy and operating on it never writes to the user handler
\* and never changes the registry; each operation looks the trap up on the
\* user handler as it is then, so a trap added or removed after the proxy was
\* made decides the next operation with a non-private key.
C30_HandlerIsReadAtEachOperation ==
    [][/\ lastOp'.op \in KeyedMethods \cup {"Proxy"}
            => /\ data' = data
               /\ \A o \in 1..Len(proxies) : proxies'[o] = proxies[o]
               /\ \A o \in 1..Len(proxies') :
                      o > Len(proxies)
                        => proxies'[o].handler = proxies'[o].made
       /\ (/\ lastOp'.op \in KeyedMethods /\ lastOp'.obj # 0
           /\ lastOp'.key \notin data)
            => IF lastOp'.op \in proxies[lastOp'.obj].handler
               THEN /\ lastOp'.calls =
                         <<[proxy |-> lastOp'.obj, method |-> lastOp'.op,
                            target |-> proxies[lastOp'.obj].target,
                            key |-> lastOp'.key, val |-> lastOp'.val]>>
                    /\ lastOp'.res \in TrapVals
               ELSE \A i \in 1..Len(lastOp'.calls) :
                        lastOp'.calls[i].proxy # lastOp'.obj]_vars

\* a get with a non-private key runs a get trap that the handler did not
\* have when the proxy was made
C30_Witness ==
    /\ lastOp.op = "get" /\ lastOp.obj # 0 /\ lastOp.key \notin data
    /\ "get" \notin proxies[lastOp.obj].made
    /\ "get" \in proxies[lastOp.obj].handler
    /\ lastOp.calls # <<>>

(* Properties of the importer that reads exports.__exportedRefs *)

\* C31: init(mod, keys) of the __exportedRefs importer returns without error
\* and binds the requested keys whenever __exportedRefs maps every requested
\* name to a WeakMap, and raises its reference error only when some requested
\* name is not among the exported refs.
C31_InitBindsExportedRefs ==
    (lastRef.op = "init" /\ lastRef.mod = "refs") =>
        /\ Range(lastRef.keys) \subseteq lastRef.refs.weak
             => /\ lastRef.err = "none"
                /\ exported2.type = "map"
                /\ Range(lastRef.keys) \subseteq exported2.names
        /\ lastRef.err = "ReferenceError"
             => \E k \in Range(lastRef.keys) : k \notin lastRef.refs.names

\* C32: once the __exportedRefs importer is bound, set(O, key, value) for an
\* exported key and an object that has the field stores the value and
\* returns it, so that the field then holds value.
C32_SetStoresTheValue ==
    [][(/\ lastRef'.op = "set"
        /\ exported2.type = "map" /\ lastRef'.key \in exported2.names
        /\ lastRef'.obj \in Objects
        /\ refStores[lastRef'.key][lastRef'.obj] # "absent")
         => /\ lastRef'.err = "none"
            /\ lastRef'.ret = lastRef'.val
            /\ refStores'[lastRef'.key][lastRef'.obj] = lastRef'.val]_vars

(* Properties of the importer's init and the binding *)

\* C33 as stated: an init call returns without error if and only if the
\* binding is Bound when the call ends.
C33_InitReturnsIffBound ==
    lastCall.op = "init" => (lastCall.err = "none" <=> Binding = "Bound")

\* C33: an init call that returns without error ends with the binding Bound,
\* and one that raises the reference error ends with it not Bound; an init
\* that raises the TypeError leaves the binding as it was, Bound or not.  A
\* get or set raises the reference error of the binding exactly when the
\* binding is not Bound at the call.
C33_InitOutcomeMatchesBinding ==
    [][/\ lastCall'.op = "init"
            => /\ lastCall'.err \in {"none", "ReferenceError", "TypeError"}
               /\ lastCall'.err = "none" => Binding' = "Bound"
               /\ lastCall'.err = "ReferenceError" => Binding' # "Bound"
               /\ (lastCall'.err = "TypeError" /\ lastCall' # lastCall)
                    => Binding' = Binding
       /\ (lastCall'.op \in {"get", "set"} /\ lastCall' # lastCall)
            => (lastCall'.err = "ReferenceError" <=> Binding # "Bound")]_vars

\* an init on a Poisoned binding has returned without error: it is Bound
C33_Witness ==
    /\ lastCall.op = "init" /\ lastCall.err = "none"
    /\ lastCall.mod = "hooked" /\ lastCall.was = "Poisoned"
    /\ Binding = "Bound"

(* Frame properties of the broker *)

\* the objects that have an entry in the store of key `name`
Entries(st, name) == {o \in Objects : st[name][o] # "absent"}

\* C34: factory calls (direct, or made by init) and the get and set of a
\* session (direct, or through the importer that holds it) never change
\* which objects have an entry in a store: set only replaces the value of an
\* entry that exists, and get writes nothing.
C34_EntriesAreFixed ==
    [][(/\ lastCall'.op \in {"factory", "session.get", "session.set",
                             "init", "get", "set"}
        /\ lastCall' # lastCall)
         => /\ \A name \in StoreNames :
                  Entries(stores', name) = Entries(stores, name)
            /\ lastCall'.op \notin {"session.set", "set"} => stores' = stores
            /\ \A name \in StoreNames, o \in Objects :
                  stores'[name][o] # stores[name][o]
                    => /\ lastCall'.err = "none"
                       /\ name = lastCall'.key /\ o = lastCall'.obj
                       /\ stores[name][o] # "absent"
                       /\ stores'[name][o] = lastCall'.val]_vars

\* a set has replaced the value of an entry; the other store has no entry
C34_Witness ==
    /\ lastCall.op \in {"session.set", "set"} /\ lastCall.err = "none"
    /\ lastCall.obj \in Objects
    /\ stores[lastCall.key][lastCall.obj] = "v2"
    /\ \E name \in StoreNames : Entries(stores, name) = {}

\* C35: a get or set of a session that fails (InvalidKey, TypeMismatch or
\* MissingField) and a factory call that returns the name of an unauthorized
\* key leave every store, the allow-lists and every session as they were.
C35_FailuresChangeNothing ==
    [][(/\ lastCall' # lastCall
        /\ \/ lastCall'.op \in SessionOps /\ lastCall'.err # "none"
           \/ lastCall'.op = "factory" /\ lastCall'.ret # "session")
         => /\ stores' = stores
            /\ fallback' = fallback
            /\ resolved' = resolved
            /\ exported' = exported
            /\ sessions' = sessions
            /\ nsessions' = nsessions]_vars

\* a set on an object without the field has failed while a session exists
\* and another store holds an entry
C35_Witness ==
    /\ lastCall.op = "session.set" /\ lastCall.kind = "MissingField"
    /\ Len(sessions) >= 2
    /\ \E name \in StoreNames : Entries(stores, name) # {}

\* C36: the key set a session authorizes is fixed when the factory makes it:
\* it is the set of the requested names, a subset of the allow-list of the
\* requesting consumer, and each of its names has a store; no later step,
\* the making of further sessions included, changes an existing session.
C36_SessionKeysAreFixed ==
    [][/\ (/\ lastCall'.op = "factory" /\ lastCall'.ret = "session"
           /\ lastCall' # lastCall)
            => /\ Len(sessions') = Len(sessions) + 1
               /\ lastCall'.session = Len(sessions')
               /\ sessions'[Len(sessions')].refs = Range(lastCall'.keys)
               /\ Range(lastCall'.keys)
                    \subseteq EffectiveAllowList(lastCall'.file)
               /\ Range(lastCall'.keys) \subseteq exported
               /\ Range(lastCall'.keys) \subseteq StoreNames
       /\ Len(sessions') >= Len(sessions)
       /\ \A i \in 1..Len(sessions) : sessions'[i] = sessions[i]]_vars

\* a second session, for another consumer and other keys, exists beside the
\* first, which still authorizes what it did
C36_Witness ==
    /\ Len(sessions) >= 2
    /\ sessions[1].refs # sessions[2].refs
    /\ sessions[1].refs # {}
    /\ lastCall.op = "factory" /\ lastCall.session = 2
    /\ lastCall.file = "/a.js" /\ "x" \in sessions[2].refs

=============================================================================
